---- MODULE Spec2Model ----
(***************************************************************************)
(* CreatorPulse: the bulk-operation orchestrator (BulkOperationManager),   *)
(* the store rows it reads and writes, the draft pipeline                  *)
(* (generate_and_save_draft / generate_draft), the content fetcher and      *)
(* aggregator (_fetch_*, fetch_all_sources, save_content_items) and the     *)
(* trend engine (compute_trends).                                          *)
(***************************************************************************)
EXTENDS Integers, Sequences, FiniteSets, TLC

\* ------------------------------------------------------------------ bounds
MaxTargets == 3
MaxDrafts == 2
MaxItems == 2
MaxInsertRows == 3
MaxClock == 3
MaxWrappedCalls == 3

\* --------------------------------------------------------- program constants
ContentLimit == 50
MaxAttempts == 3
SdkFallbackLinks == 5

\* ------------------------------------------------------------ value domains
Workspaces == {"A", "B", "C"}
Kinds == {"source_fetch", "draft_generate", "newsletter_send"}
OpIds == {1}
CallIds == {1, 2}
NULL == "NULL"
DraftTexts == {"", "T1"}
FetchCounts == {3}
LLMTexts == {"", "T1"}
NumLinksInputs == {0, 1, 5}

\* len() of the draft texts the model uses
StrLen(t) == IF t = "" THEN 0 ELSE 2

\* workspace_members rows: A and C have one member, B has none
MemberOf(w) == IF w = "B" THEN <<>> ELSE <<[user_id |-> "u" \o w]>>
UserIds == {"uA", "uC"}
EmailOf(u) == u \o "@x"

\* exceptions: str(e) may be the empty string (e.g. a timeout without text)
NoExc == [type |-> "none", msg |-> ""]
StoreErrors == {[type |-> "APIError", msg |-> "db down"], [type |-> "Timeout", msg |-> ""]}
\* the store error a per-target lookup or collaborator call may raise
TargetErrors == {[type |-> "APIError", msg |-> "db down"]}
NotFoundError == [type |-> "ValueError", msg |-> "Operation not found"]
SendError == [type |-> "RuntimeError", msg |-> "Resend error"]
UnexpectedKeyword == [type |-> "TypeError", msg |-> "unexpected keyword argument"]

TargetLists == UNION {[1..n -> Workspaces] : n \in 0..MaxTargets}
\* the target lists for which a second execute call is explored
RerunLists == {<<>>} \cup {<<w>> : w \in Workspaces}

VARIABLES
    bulk_operations,   \* table bulk_operations: OpIds -> row or NoRow
    users,             \* table users: the set of user ids that have a row
    drafts,            \* table drafts, in created_at order
    invocations,       \* the collaborator calls made so far (aggregator, draft pipeline, email)
    calls,             \* the execute calls: CallIds -> frame of locals
    gen,               \* one generate_and_save_draft call and its environment
    fetcher,           \* one fetch_all_sources call: its locals and those of its callees
    content_items,     \* table content_items: the rows persisted, in insertion order
    trend,             \* compute_trends: the arguments, the counters and the results
    mail,              \* one send_email call and the delivery requests issued
    limiter,           \* a RateLimiter, the clock, and a function under @rate_limit
    client             \* the module global _client and the threads calling get_client

vars == <<bulk_operations, users, drafts, invocations, calls, gen,
          fetcher, content_items, trend, mail, limiter, client>>
\* the variables of the monitoring, mail and store-client modules
Services == <<mail, limiter, client>>
\* what the orchestrator's actions leave alone
NotBulk == <<gen, fetcher, content_items, trend, Services>>
\* what the draft pipeline's actions leave alone
NotGen == <<bulk_operations, users, invocations, calls, fetcher, content_items, trend,
           Services>>
\* what the content aggregator's actions leave alone
NotFetch == <<bulk_operations, users, drafts, invocations, calls, gen, trend, Services>>
\* what the trend engine's actions leave alone
NotTrend == <<bulk_operations, users, drafts, invocations, calls, gen,
              fetcher, content_items, Services>>
\* what the actions of the other modules leave alone
Core == <<bulk_operations, users, drafts, invocations, calls, gen,
          fetcher, content_items, trend>>

NoRow == [status |-> "absent"]
NoDraft == [id |-> 0, user_id |-> "NULL", draft_text |-> "", sent |-> FALSE]

\* selected_item_ids=None
NoSelection == [given |-> FALSE, ids |-> <<>>]

SelectionInputs ==
    {NoSelection} \cup {[given |-> TRUE, ids |-> ids] : ids \in {<<>>, <<1>>, <<1, 2>>, <<9>>}}
GenEnvs == [items : 0..MaxItems, api_key : BOOLEAN, sdk : BOOLEAN]
RetryError == [type |-> "RetryError", msg |-> "RetryError"]

Min(a, b) == IF a < b THEN a ELSE b
Max(a, b) == IF a > b THEN a ELSE b
Range(seq) == {seq[i] : i \in 1..Len(seq)}

\* ------------------------------------------------------------ store rows
DefaultStatus == "pending"
DefaultProgress == [total |-> 0, completed |-> 0, failed |-> 0]
DefaultResults == <<>>

\* create_bulk_operation: the insert names four columns, the rest default
NewOperationRow(kind, targets) ==
    [operation_type |-> kind, target_workspaces |-> targets,
     status |-> DefaultStatus, progress |-> DefaultProgress,
     results |-> DefaultResults, error_message |-> NULL]

\* Python truthiness of the optional arguments of update_bulk_operation_status
\* (None and the empty dict are both falsy: NoDict stands for either)
NoDict == <<>>
TruthyDict(d) == DOMAIN d # {}
TruthyStr(s) == s # NULL /\ s # ""

UpdateBulkOperationStatusNoMessage(row, status, progress, results, error_message) ==
    [row EXCEPT
        !.status = status,
        !.progress = IF TruthyDict(progress) THEN progress ELSE @,
        !.results = IF TruthyDict(results) THEN results ELSE @]
\* update_bulk_operation_status: the row after the update
UpdateBulkOperationStatus(row, status, progress, results, error_message) ==
    [row EXCEPT
        !.status = status,
        !.progress = IF TruthyDict(progress) THEN progress ELSE @,
        !.results = IF TruthyDict(results) THEN results ELSE @,
        !.error_message = IF TruthyStr(error_message) THEN error_message ELSE @]

\* get_latest_draft: the newest draft row of the user, or NoDraft
GetLatestDraft(ds, u) ==
    LET mine == {i \in 1..Len(ds) : ds[i].user_id = u}
    IN IF mine = {} THEN NoDraft
       ELSE ds[CHOOSE i \in mine : \A j \in mine : j <= i]

\* save_draft: insert a row with sent = False
SaveDraftRow(ds, u, t) ==
    Append(ds, [id |-> Len(ds) + 1, user_id |-> u, draft_text |-> t, sent |-> FALSE])

\* mark_latest_draft_sent: look the latest draft up again and update it by id
MarkLatestDraftSent(ds, u) ==
    LET latest == GetLatestDraft(ds, u)
    IN IF latest = NoDraft THEN ds
       ELSE [i \in 1..Len(ds) |-> IF ds[i].id = latest.id THEN [ds[i] EXCEPT !.sent = TRUE] ELSE ds[i]]

\* ------------------------------------------------------------ call frames
IdleFrame ==
    [pc |-> "idle", op |-> 0, kind |-> NULL, targets |-> <<>>, idx |-> 0,
     results |-> <<>>, progress |-> DefaultProgress,
     user |-> NULL, latest |-> NoDraft, exc |-> NoExc, ret |-> NULL]

\* the frame of a call that has ended: the exception it raised, or the status
\* of the summary it returned
EndFrame(pc, exc, ret) == [IdleFrame EXCEPT !.pc = pc, !.exc = exc, !.ret = ret]

\* one collaborator call: fetch_all_sources, generate_and_save_draft or send_email
Invocation(fn, w, u, draft) ==
    [fn |-> fn, workspace_id |-> w, user_id |-> u, to_email |-> EmailOf(u),
     draft_id |-> draft.id, text |-> draft.draft_text]

\* a results[key] = value that forgets the other entries
PutAlone(results, key, value) == [k \in {key} |-> value]
\* results[key] = value
Put(results, key, value) ==
    [k \in DOMAIN results \cup {key} |-> IF k = key THEN value ELSE results[k]]

Failed(msg) == [status |-> "failed", error |-> msg]

RecordFailedUncounted(f, msg) ==
    [f EXCEPT !.results = Put(@, f.targets[f.idx], Failed(msg)),
              !.idx = @ + 1, !.pc = "loop", !.user = NULL, !.latest = NoDraft]
\* the frame after the target at idx was recorded as failed
RecordFailed(f, msg) ==
    [f EXCEPT !.results = Put(@, f.targets[f.idx], Failed(msg)),
              !.progress.failed = @ + 1,
              !.idx = @ + 1, !.pc = "loop", !.user = NULL, !.latest = NoDraft]

\* the frame after the target at idx was recorded as a success
RecordSuccess(f, result) ==
    [f EXCEPT !.results = Put(@, f.targets[f.idx], result),
              !.progress.completed = @ + 1,
              !.idx = @ + 1, !.pc = "loop", !.user = NULL, !.latest = NoDraft]

\* `if not members:` records the failure and continues with the next target
NoMembersBreak(f) ==
    [RecordFailed(f, "No members found") EXCEPT !.idx = Len(f.targets) + 1]
NoMembers(f) == RecordFailed(f, "No members found")

InLoop(c, kind) ==
    /\ calls[c].pc = "loop"
    /\ calls[c].kind = kind
    /\ calls[c].idx <= Len(calls[c].targets)

\* --------------------------------------------------------- draft pipeline
\* the frame of generate_and_save_draft before it is called, in environment env:
\* the user's content_items rows (ids 1..items), whether GROQ_API_KEY is set,
\* whether the groq SDK can be imported
GenIdle(env) ==
    [pc |-> "idle", env |-> env, selected |-> NoSelection, num_links |-> 0,
     content_items |-> <<>>, attempt |-> 0, draft_text |-> "", exc |-> NoExc,
     llm_calls |-> 0, completion |-> NULL]

\* ------------------------------------------------------- content fetcher
\* every fetch loop keeps at most this many entries (`i >= 10`, `[:10]`)
FetchCap == 10
\* the mirrors of _fetch_twitter, in the order of the list
NitterHosts == <<"nitter.net", "nitter.poast.org", "nitter.fdn.fr", "ntrqq.com">>

\* the number of entries an upstream listing has
AvailCounts == {0, 1, 2, 3, 12}
\* What one upstream read does inside its try block: the listing has `avail`
\* entries and, when `raises`, an exception is raised after `after` entries
\* have been turned into items (after = 0: the import or the request raised).
UpstreamOutcomes ==
    {[avail |-> a, raises |-> FALSE, after |-> 0] : a \in AvailCounts}
    \cup {[avail |-> 0, raises |-> TRUE, after |-> 0]}
    \cup {[avail |-> a, raises |-> TRUE, after |-> 2] : a \in {3, 12}}
\* the number of items the loop over the listing appends
Taken(o) == IF o.raises THEN Min(o.after, FetchCap) ELSE Min(o.avail, FetchCap)
\* What one proxied HTML page does: the request raises, the response has an
\* error status, the page has no status ids, or it has `ids` distinct ones.
HtmlOutcomes ==
    {[kind |-> k, ids |-> 0] : k \in {"raise", "http_error", "no_match"}}
    \cup {[kind |-> "found", ids |-> n] : n \in {2, 12}}

\* the items built from the first k entries of a listing
MakeItems(tier, host, k) == [i \in 1..k |-> [tier |-> tier, host |-> host, n |-> i]]
\* one tier queried for the current source, and what came of it
LogEntry(tier, host, yielded, raised) ==
    [tier |-> tier, host |-> host, yielded |-> yielded, raised |-> raised]

\* user_sources rows; boost_factor in tenths (24 is 2.4), feed_url: whether
\* the source_value holds "feeds/videos.xml"
SourcePool ==
    {[source_type |-> "twitter", feed_url |-> FALSE, boost_factor |-> 10],
     [source_type |-> "twitter", feed_url |-> FALSE, boost_factor |-> 24],
     [source_type |-> "rss", feed_url |-> FALSE, boost_factor |-> 10],
     [source_type |-> "rss", feed_url |-> FALSE, boost_factor |-> 30],
     [source_type |-> "youtube", feed_url |-> TRUE, boost_factor |-> 5],
     [source_type |-> "youtube", feed_url |-> FALSE, boost_factor |-> 19]}
\* list_sources: the rows in id order (the lists explored hold at most one
\* twitter source)
SourceLists ==
    {[i \in DOMAIN l |-> [id |-> i, source_type |-> l[i].source_type,
                          feed_url |-> l[i].feed_url, boost_factor |-> l[i].boost_factor]] :
        l \in {q \in UNION {[1..m -> SourcePool] : m \in 0..2} :
                  Cardinality({i \in DOMAIN q : q[i].source_type = "twitter"}) <= 1}}
WorkspaceArgs == {NULL, "W1"}

FetchIdle ==
    [pc |-> "idle", workspace_id |-> NULL, sources |-> <<>>, idx |-> 0, host |-> 0,
     items |-> <<>>, log |-> <<>>, collected |-> <<>>, fetched |-> <<>>,
     rows |-> <<>>, inserted |-> <<>>, save_calls |-> 0, upsert |-> "none", ret |-> 0]

\* --------------------------------------------------------- trend engine
\* the windows of compute_trends, in hours before `now`
RecentHours == 48
BaselineHours == 168
\* `len(t) >= 4` of _extract_terms, `ranked[:10]` of compute_trends
MinTermLen == 4
TopTrends == 10

\* the words the item texts are made of, in a fixed order
Vocabulary ==
    <<"alpha", "beta", "#ai", "api", "the", "your",
      "term01", "term02", "term03", "term04", "term05", "term06",
      "term07", "term08", "term09", "term10", "term11">>
\* the words of the vocabulary that are in _STOPWORDS
Stopwords == {"the", "your"}
\* len() and startswith("#") of the words
WordLen(w) == IF w \in {"api", "the", "#ai"} THEN 3 ELSE IF w \in {"beta", "your"} THEN 4
              ELSE IF w = "alpha" THEN 5 ELSE 6
IsHashtag(w) == w = "#ai"

\* title + summary of an item, lower-cased and split into words
ItemTexts ==
    {<<"alpha", "alpha", "alpha", "alpha", "alpha">>,
     <<"beta", "beta", "beta", "beta">>,
     <<"the", "api", "#ai", "alpha", "your">>,
     <<"term01", "term02", "term03", "term04", "term05", "term06",
       "term07", "term08", "term09", "term10", "term11">>}
\* created_at: an ISO timestamp `age` hours before now, a string that does not
\* parse, or no value
CreatedAts ==
    {[kind |-> "iso", age |-> a] : a \in {1, 48, 49, 200}}
    \cup {[kind |-> "bad", age |-> 0], [kind |-> "none", age |-> 0]}
TrendItems == [created_at : CreatedAts, text : ItemTexts]
TrendItemLists == UNION {[1..n -> TrendItems] : n \in 0..3}
\* the iteration order of a set of strings depends on the process's hash
\* seed: two of the orders it can take
HashSeeds == {0, 1}

\* compute_trends before it is called on `items` in a process of hash seed
\* `seed`; seed2 and ret2 are those of a second call on the same items
TrendIdle(items, seed) ==
    [pc |-> "idle", items |-> items, seed |-> seed,
     recent_counter |-> <<>>, baseline_counter |-> <<>>, ret |-> <<>>,
     seed2 |-> seed, ret2 |-> <<>>]

\* _tokenize and _extract_terms: the words kept as terms
ExtractTerms(text) ==
    SelectSeq(text, LAMBDA w : w \notin Stopwords /\ (IsHashtag(w) \/ WordLen(w) >= MinTermLen))

WindowDropsOld(created_at) ==
    IF created_at.kind = "iso" /\ created_at.age <= RecentHours THEN "recent"
    ELSE IF created_at.kind = "iso" /\ created_at.age <= BaselineHours THEN "baseline"
    ELSE "none"
\* compute_trends: the window an item's terms are counted in
Window(created_at) ==
    IF created_at.kind = "iso" /\ created_at.age <= RecentHours THEN "recent"
    ELSE IF created_at.kind = "iso" /\ created_at.age <= BaselineHours THEN "baseline"
    ELSE "baseline"

\* the number of times w occurs in seq
Occurrences(seq, w) == Cardinality({i \in DOMAIN seq : seq[i] = w})
RECURSIVE Counter(_, _, _, _)
\* recent_counter / baseline_counter after the first n items: the count of term
Counter(items, window, term, n) ==
    IF n = 0 THEN 0
    ELSE Counter(items, window, term, n - 1)
         + IF Window(items[n].created_at) = window
           THEN Occurrences(ExtractTerms(items[n].text), term) ELSE 0

\* a Counter after the loop over the items: the terms counted and their counts
CounterOf(items, window) ==
    [w \in {v \in Range(Vocabulary) : Counter(items, window, v, Len(items)) > 0} |->
        Counter(items, window, w, Len(items))]

ScoreFullBaseline(r, b) == 2 * r - 2 * b
\* score = float(r) - 0.5 * float(b), in halves (10 is 5.0)
Score(r, b) == 2 * r - b

\* the elements of the set S in the iteration order of the seed
SetOrder(S, seed) ==
    LET n == Len(Vocabulary)
        order == IF seed = 0 THEN Vocabulary ELSE [i \in 1..n |-> Vocabulary[n + 1 - i]]
    IN SelectSeq(order, LAMBDA w : w \in S)

RECURSIVE SortedDescending(_)
\* sorted(..., key=score, reverse=True): stable, equal scores keep their order
SortedDescending(pairs) ==
    IF pairs = <<>> THEN <<>>
    ELSE LET best == CHOOSE i \in DOMAIN pairs :
                        /\ \A j \in DOMAIN pairs : pairs[j].score <= pairs[i].score
                        /\ \A j \in 1..(i - 1) : pairs[j].score < pairs[i].score
             rest == [j \in 1..(Len(pairs) - 1) |-> IF j < best THEN pairs[j] ELSE pairs[j + 1]]
         IN <<pairs[best]>> \o SortedDescending(rest)

\* compute_trends(items): the ranked (term, score) pairs
ComputeTrendsResult(items, seed) ==
    IF items = <<>> THEN <<>>
    ELSE LET n == Len(items)
             all_terms == {w \in Range(Vocabulary) :
                             Counter(items, "recent", w, n) + Counter(items, "baseline", w, n) > 0}
             scored == [i \in 1..Len(SetOrder(all_terms, seed)) |->
                          LET w == SetOrder(all_terms, seed)[i]
                          IN [term |-> w,
                              score |-> Score(Counter(items, "recent", w, n),
                                              Counter(items, "baseline", w, n))]]
             scores == SelectSeq(scored, LAMBDA kv : kv.score > 0)
             ranked == SortedDescending(scores)
         IN SubSeq(ranked, 1, Min(Len(ranked), TopTrends))

\* ------------------------------------------------------------ services
\* the status from which send_email treats a response as an error
ErrorStatus == 400
\* the recipients, subjects and delivery responses explored
ToEmails == {"a@x", "b@x", "c@x"}
Subjects == {"S1", "S2", "S3"}
Responses == [status : {200, 399, 400, 403, 500},
              text : {"Bad Request", "The domain is not verified"}]
NoMailError == [type |-> "none", status |-> 0, text |-> "", hint |-> FALSE]
\* send_email before it is called
MailIdle ==
    [pc |-> "idle", api_key |-> FALSE, to_email |-> NULL, subject |-> NULL,
     requests |-> <<>>, status |-> 0, text |-> "", exc |-> NoMailError]
\* the rate keys, limits and windows explored
RateKeys == {"k1", "k2"}
RateLimits == {0, 1, 2}
RateWindows == {1, 2}
NoResult == [key |-> NULL, ret |-> FALSE]
\* A new RateLimiter at time 0 and a function under @rate_limit, nothing
\* called yet. requests is self.requests; allowed and invoked are the times at
\* which is_allowed returned True and the wrapped function ran, per key; last
\* and wrapped are the outcomes of the latest calls.
LimiterIdle ==
    [now |-> 0, limit |-> 0, window_seconds |-> 0, requests |-> <<>>,
     allowed |-> [k \in RateKeys |-> <<>>], last |-> NoResult,
     invoked |-> [k \in RateKeys |-> <<>>], wrapped |-> NoResult]
\* the threads of the process that call get_client
Threads == {"t1", "t2"}
\* the module supabase_client after import: _client is None (0), create_client
\* has run constructed times, env says whether SUPABASE_URL and SUPABASE_KEY
\* are set, returns is every instance a call has returned, and each thread
\* is outside get_client
ClientIdle ==
    [global |-> 0, constructed |-> 0, env |-> FALSE, returns |-> {},
     threads |-> [t \in Threads |-> [pc |-> "idle", made |-> 0, ret |-> 0]]]

\* --------------------------------------------------------------- actions
Init ==
    /\ bulk_operations = [o \in OpIds |-> NoRow]
    /\ users \in {UserIds, {"uA"}}
    /\ drafts = <<>>
    /\ invocations = {}
    /\ calls = [c \in CallIds |-> IdleFrame]
    /\ gen = GenIdle([items |-> 0, api_key |-> FALSE, sdk |-> FALSE])
    /\ fetcher = FetchIdle
    /\ content_items = <<>>
    /\ mail = MailIdle
    /\ limiter = LimiterIdle
    /\ client = ClientIdle
    /\ trend = TrendIdle(<<>>, 0)

\* create_bulk_<kind>_operation
CreateOperation ==
    \E o \in OpIds, kind \in Kinds, targets \in TargetLists :
        /\ bulk_operations[o] = NoRow
        /\ bulk_operations' = [bulk_operations EXCEPT ![o] = NewOperationRow(kind, targets)]
        /\ UNCHANGED <<users, drafts, invocations, calls, NotBulk>>

\* the users whose drafts an operation reads: the first member of each target
\* of a newsletter_send operation
DraftReaders ==
    {u \in UserIds : \E o \in OpIds :
        /\ bulk_operations[o] # NoRow
        /\ bulk_operations[o].operation_type = "newsletter_send"
        /\ \E i \in 1..Len(bulk_operations[o].target_workspaces) :
              LET m == MemberOf(bulk_operations[o].target_workspaces[i])
              IN m # <<>> /\ m[1].user_id = u}

\* save_draft by another writer (dashboard, job_run), explored for the users
\* whose drafts are read
SaveDraft ==
    \E u \in DraftReaders, t \in DraftTexts :
        /\ Len(drafts) < MaxDrafts
        /\ drafts' = SaveDraftRow(drafts, u, t)
        /\ UNCHANGED <<bulk_operations, users, invocations, calls, NotBulk>>

\* execute_bulk_<kind>: read the operation row. The first call is explored
\* for every operation, a second one (after or during another, or on a
\* missing row) for the operations whose target list is in RerunLists.
Begin(c) ==
    \E o \in OpIds :
        /\ calls[c].pc = "idle"
        /\ \A d \in CallIds : d < c => calls[d].pc # "idle"
        /\ IF bulk_operations[o] = NoRow
           THEN calls' = [calls EXCEPT ![c] = EndFrame("raised", NotFoundError, NULL)]
           ELSE /\ c = 1 \/ bulk_operations[o].target_workspaces \in RerunLists
                /\ calls' = [calls EXCEPT ![c] =
                       [IdleFrame EXCEPT !.pc = "set_running", !.op = o,
                                         !.kind = bulk_operations[o].operation_type,
                                         !.targets = bulk_operations[o].target_workspaces]]
        /\ UNCHANGED <<bulk_operations, users, drafts, invocations, NotBulk>>

\* update_bulk_operation_status(status="running"), then the locals
SetRunning(c) ==
    /\ calls[c].pc = "set_running"
    /\ \/ /\ bulk_operations' = [bulk_operations EXCEPT ![calls[c].op] =
                 UpdateBulkOperationStatus(@, "running", NoDict, NoDict, NULL)]
          /\ calls' = [calls EXCEPT ![c].pc = "loop", ![c].idx = 1, ![c].results = <<>>,
                 ![c].progress = [total |-> Len(calls[c].targets), completed |-> 0, failed |-> 0]]
       \/ \E e \in StoreErrors :
             /\ calls' = [calls EXCEPT ![c] = EndFrame("raised", e, NULL)]
             /\ UNCHANGED bulk_operations
    /\ UNCHANGED <<users, drafts, invocations, NotBulk>>

\* the keyword-only parameters of generate_and_save_draft, and the keywords
\* execute_bulk_generate passes
GenerateAndSaveDraftParams ==
    {"user_id", "selected_item_ids", "temperature", "num_links", "num_trends",
     "include_intro", "include_links", "include_trends"}
BulkGenerateKwargs ==
    {"user_id", "workspace_id", "selected_item_ids", "temperature", "num_links"}
AcceptsKwargs(kwargs) == kwargs \subseteq GenerateAndSaveDraftParams

\* execute_bulk_fetch, one iteration of the loop
FetchTarget(c) ==
    /\ InLoop(c, "source_fetch")
    /\ LET f == calls[c]
           w == f.targets[f.idx]
           members == MemberOf(w)
           user_id == members[1].user_id
       IN \/ /\ members = <<>>
             /\ calls' = [calls EXCEPT ![c] = NoMembers(f)]
             /\ UNCHANGED invocations
          \/ /\ members # <<>>
             /\ invocations' = invocations \cup {Invocation("fetch_all_sources", w, user_id, NoDraft)}
             /\ \/ \E n \in FetchCounts :
                      calls' = [calls EXCEPT ![c] =
                          RecordSuccess(f, [status |-> "success", items_fetched |-> n])]
                \/ \E e \in TargetErrors :
                      calls' = [calls EXCEPT ![c] = RecordFailed(f, e.msg)]
    /\ UNCHANGED <<bulk_operations, users, drafts, NotBulk>>

\* execute_bulk_generate, one iteration of the loop. The call of
\* generate_and_save_draft raises TypeError when it is passed a keyword the
\* function does not declare.
GenerateTarget(c) ==
    /\ InLoop(c, "draft_generate")
    /\ LET f == calls[c]
           w == f.targets[f.idx]
           members == MemberOf(w)
           user_id == members[1].user_id
       IN \/ /\ members = <<>>
             /\ calls' = [calls EXCEPT ![c] = NoMembers(f)]
             /\ UNCHANGED <<drafts, invocations>>
          \/ /\ members # <<>>
             /\ invocations' = invocations \cup
                    {Invocation("generate_and_save_draft", w, user_id, NoDraft)}
             /\ IF ~AcceptsKwargs(BulkGenerateKwargs)
                THEN /\ calls' = [calls EXCEPT ![c] = RecordFailed(f, UnexpectedKeyword.msg)]
                     /\ UNCHANGED drafts
                ELSE \E t \in DraftTexts :
                        /\ drafts' = IF t # "" /\ Len(drafts) < MaxDrafts
                                     THEN SaveDraftRow(drafts, user_id, t)
                                     ELSE drafts
                        /\ calls' = [calls EXCEPT ![c] =
                              IF t # ""
                              THEN RecordSuccess(f, [status |-> "success",
                                       draft_generated |-> TRUE, length |-> StrLen(t)])
                              ELSE RecordSuccess(f, [status |-> "success",
                                       draft_generated |-> FALSE,
                                       reason |-> "No content available"])]
    /\ UNCHANGED <<bulk_operations, users, NotBulk>>

DraftUsableAnyText(latest) == latest # NoDraft
\* `if not latest_draft or not latest_draft.get("draft_text")` does not hold
DraftUsable(latest) == latest # NoDraft /\ latest.draft_text # ""

\* execute_bulk_send, one iteration: members, user email, latest draft
SendLookup(c) ==
    /\ InLoop(c, "newsletter_send")
    /\ LET f == calls[c]
           members == MemberOf(f.targets[f.idx])
           user_id == members[1].user_id
           latest == GetLatestDraft(drafts, user_id)
       IN \/ /\ members = <<>>
             /\ calls' = [calls EXCEPT ![c] = NoMembers(f)]
          \/ /\ members # <<>>
             /\ user_id \notin users
             /\ calls' = [calls EXCEPT ![c] = RecordFailed(f, "User not found")]
          \/ /\ members # <<>>
             /\ user_id \in users
             /\ ~DraftUsable(latest)
             /\ calls' = [calls EXCEPT ![c] = RecordFailed(f, "No draft available")]
          \/ /\ members # <<>>
             /\ user_id \in users
             /\ DraftUsable(latest)
             /\ calls' = [calls EXCEPT ![c].pc = "send", ![c].user = user_id,
                                       ![c].latest = latest]
    /\ UNCHANGED <<bulk_operations, users, drafts, invocations, NotBulk>>

\* execute_bulk_send: markdown_to_html, inject_tracking, send_email
SendEmail(c) ==
    /\ calls[c].pc = "send"
    /\ LET f == calls[c]
       IN \/ /\ invocations' = invocations \cup
                    {Invocation("send_email", f.targets[f.idx], f.user, f.latest)}
             /\ calls' = [calls EXCEPT ![c].pc = "mark"]
          \/ /\ invocations' = invocations \cup
                    {Invocation("send_email_failed", f.targets[f.idx], f.user, f.latest)}
             /\ calls' = [calls EXCEPT ![c] = RecordFailed(f, SendError.msg)]
    /\ UNCHANGED <<bulk_operations, users, drafts, NotBulk>>

\* execute_bulk_send: mark_latest_draft_sent, then the success entry
MarkSent(c) ==
    /\ calls[c].pc = "mark"
    /\ LET f == calls[c]
       IN \/ /\ drafts' = MarkLatestDraftSent(drafts, f.user)
             /\ calls' = [calls EXCEPT ![c] =
                   RecordSuccess(f, [status |-> "success", email_sent |-> TRUE,
                                     recipient |-> EmailOf(f.user)])]
          \/ /\ \E e \in TargetErrors :
                   calls' = [calls EXCEPT ![c] = RecordFailed(f, e.msg)]
             /\ UNCHANGED drafts
    /\ UNCHANGED <<bulk_operations, users, invocations, NotBulk>>

FinalStatusFailedOnFailure(progress) ==
    IF progress.failed = 0 THEN "completed" ELSE "failed"
\* final_status = "completed" if progress["failed"] == 0 else "completed"
FinalStatus(progress) == IF progress.failed = 0 THEN "completed" ELSE "completed"

\* after the loop: the final update, then return; a failing update is caught
\* by the outer handler
Finalize(c) ==
    /\ calls[c].pc = "loop"
    /\ calls[c].idx > Len(calls[c].targets)
    /\ LET f == calls[c]
       IN \/ /\ bulk_operations' = [bulk_operations EXCEPT ![f.op] =
                   UpdateBulkOperationStatus(@, FinalStatus(f.progress), f.progress,
                                             f.results, NULL)]
             /\ calls' = [calls EXCEPT ![c] = EndFrame("returned", NoExc, FinalStatus(f.progress))]
          \/ /\ \E e \in StoreErrors :
                   calls' = [calls EXCEPT ![c].pc = "handler", ![c].exc = e]
             /\ UNCHANGED bulk_operations
    /\ UNCHANGED <<users, drafts, invocations, NotBulk>>

\* except Exception as e: update status "failed" with str(e), then raise
Handler(c) ==
    /\ calls[c].pc = "handler"
    /\ LET f == calls[c]
       IN \/ /\ bulk_operations' = [bulk_operations EXCEPT ![f.op] =
                   UpdateBulkOperationStatus(@, "failed", NoDict, NoDict, f.exc.msg)]
             /\ calls' = [calls EXCEPT ![c] = EndFrame("raised", f.exc, NULL)]
          \/ /\ \E e \in StoreErrors :
                   calls' = [calls EXCEPT ![c] = EndFrame("raised", e, NULL)]
             /\ UNCHANGED bulk_operations
    /\ UNCHANGED <<users, drafts, invocations, NotBulk>>

\* list_recent_content: the ids of the user's newest rows, newest first
ListRecentContent(n, limit) == [i \in 1..Min(n, limit) |-> n + 1 - i]

\* generate_and_save_draft: the items kept by `if selected_item_ids:`
FilterSelected(items, sel) ==
    IF sel.given /\ sel.ids # <<>>
    THEN SelectSeq(items, LAMBDA id : id \in Range(sel.ids))
    ELSE items

\* the templated draft of generate_draft listing content_items[:k]
FallbackDraft(items, k) == "FB" \o ToString(Min(Len(items), k))

\* tenacity stop_after_attempt: whether attempt number n was the last one
StopAfterAttempt(n) == n >= MaxAttempts

\* a caller (dashboard, job_run) calls generate_and_save_draft
GenCall ==
    \E sel \in SelectionInputs, nl \in NumLinksInputs :
        /\ gen.pc = "idle"
        /\ gen' = [gen EXCEPT !.pc = "load", !.selected = sel, !.num_links = nl]
        /\ UNCHANGED <<drafts, NotGen>>

HasContentAlways(items) == TRUE
\* generate_and_save_draft: `if not content_items: return ""`
HasContent(items) == items # <<>>

\* generate_and_save_draft: load and filter the content items
GenLoad ==
    /\ gen.pc = "load"
    /\ LET items == FilterSelected(ListRecentContent(gen.env.items, ContentLimit), gen.selected)
       IN gen' = IF ~HasContent(items)
                 THEN [gen EXCEPT !.pc = "done", !.draft_text = ""]
                 ELSE [gen EXCEPT !.pc = "attempt", !.content_items = items, !.attempt = 1]
    /\ UNCHANGED <<drafts, NotGen>>

\* generate_draft under @retry: one attempt of the function body
GenAttempt ==
    /\ gen.pc = "attempt"
    /\ IF ~gen.env.api_key
       THEN gen' = [gen EXCEPT !.pc = "generated",
                       !.draft_text = FallbackDraft(gen.content_items, Max(1, gen.num_links))]
       ELSE IF ~gen.env.sdk
       THEN gen' = [gen EXCEPT !.pc = "generated",
                       !.draft_text = FallbackDraft(gen.content_items, SdkFallbackLinks)]
       ELSE \/ \E t \in LLMTexts :
                  gen' = [gen EXCEPT !.pc = "generated", !.draft_text = t,
                                     !.llm_calls = @ + 1, !.completion = t]
            \/ gen' = IF StopAfterAttempt(gen.attempt)
                      THEN [gen EXCEPT !.pc = "raised", !.exc = RetryError, !.llm_calls = @ + 1]
                      ELSE [gen EXCEPT !.attempt = @ + 1, !.llm_calls = @ + 1]
    /\ UNCHANGED <<drafts, NotGen>>

ShouldSaveAlways(draft_text) == TRUE
\* generate_and_save_draft: `if draft_text:`
ShouldSave(draft_text) == draft_text # ""

\* generate_and_save_draft: save the draft when there is text, and return it
GenSave ==
    /\ gen.pc = "generated"
    /\ drafts' = IF ShouldSave(gen.draft_text) THEN SaveDraftRow(drafts, "uA", gen.draft_text) ELSE drafts
    /\ gen' = [gen EXCEPT !.pc = "done"]
    /\ UNCHANGED NotGen

\* ----------------------------------------------------- content aggregator
\* fetch_all_sources: the loop positioned at the source of index i, or at the
\* save call when the loop is over
Enter(f, i) ==
    IF i > Len(f.sources) THEN [f EXCEPT !.pc = "save", !.idx = i]
    ELSE LET s == f.sources[i]
         IN [f EXCEPT !.idx = i, !.host = 1, !.items = <<>>, !.log = <<>>,
                      !.pc = IF s.source_type = "twitter" THEN "primary"
                             ELSE IF s.source_type = "rss" THEN "rss"
                             ELSE IF s.feed_url THEN "yt_feed" ELSE "yt_dlp"]

\* a caller (the dashboard, job_run, the orchestrator) calls fetch_all_sources
FetchAllSources ==
    \E srcs \in SourceLists, w \in WorkspaceArgs :
        /\ fetcher.pc = "idle"
        /\ fetcher' = Enter([fetcher EXCEPT !.sources = srcs, !.workspace_id = w], 1)
        /\ UNCHANGED <<content_items, NotFetch>>

\* `return items` of a _fetch_* function
ReturnItems(f) == [f EXCEPT !.pc = "boost"]
\* _fetch_twitter after the mirror loop: `if not items:` runs the HTML tier
AfterMirrors(f) ==
    IF f.items = <<>> THEN [f EXCEPT !.pc = "html", !.host = 1] ELSE ReturnItems(f)
\* the mirror loop going on to the next host
NextMirror(f) ==
    IF f.host < Len(NitterHosts) THEN [f EXCEPT !.host = @ + 1] ELSE AfterMirrors(f)

\* _fetch_twitter, primary tier: the scraper's items, at most FetchCap
TwitterPrimary ==
    /\ fetcher.pc = "primary"
    /\ \E o \in UpstreamOutcomes :
          LET k == Taken(o)
              g == [fetcher EXCEPT !.items = MakeItems("primary", 0, k),
                                   !.log = Append(@, LogEntry("primary", 0, k, o.raises))]
          IN fetcher' = IF g.items # <<>> THEN ReturnItems(g)
                        ELSE [g EXCEPT !.pc = "mirror", !.host = 1]
    /\ UNCHANGED <<content_items, NotFetch>>

\* _fetch_twitter, one RSS mirror: the items appended before an exception stay
\* in `items`; `except: continue` goes on with the next mirror
TwitterMirror ==
    /\ fetcher.pc = "mirror"
    /\ \E o \in UpstreamOutcomes :
          LET k == Taken(o)
              g == [fetcher EXCEPT
                       !.items = @ \o MakeItems("mirror", fetcher.host, k),
                       !.log = Append(@, LogEntry("mirror", fetcher.host, k, o.raises))]
          IN fetcher' = IF o.raises THEN NextMirror(g)
                        ELSE IF o.avail > 0 THEN AfterMirrors(g)
                        ELSE NextMirror(g)
    /\ UNCHANGED <<content_items, NotFetch>>

HtmlErrorPropagates(f) == [f EXCEPT !.pc = "raised"]
\* _fetch_twitter, HTML tier: `except Exception: pass`
HtmlError(f) == ReturnItems(f)

\* _fetch_twitter, last-resort tier: one proxied page per host until one has
\* status ids; items are built after the loop from the ids found
TwitterHtml ==
    /\ fetcher.pc = "html"
    /\ \E o \in HtmlOutcomes :
          LET k == IF o.kind = "found" THEN Min(o.ids, FetchCap) ELSE 0
              g == [fetcher EXCEPT
                       !.items = @ \o MakeItems("html", fetcher.host, k),
                       !.log = Append(@, LogEntry("html", fetcher.host, k, o.kind = "raise"))]
          IN fetcher' = IF o.kind = "raise" THEN HtmlError(g)
                        ELSE IF o.kind = "found" THEN ReturnItems(g)
                        ELSE IF g.host < Len(NitterHosts) THEN [g EXCEPT !.host = @ + 1]
                        ELSE ReturnItems(g)
    /\ UNCHANGED <<content_items, NotFetch>>

\* a _fetch_* function with one tier: the items appended before an exception
\* are returned
SingleTier(tier) ==
    /\ fetcher.pc = tier
    /\ \E o \in UpstreamOutcomes :
          fetcher' = ReturnItems([fetcher EXCEPT
                        !.items = MakeItems(tier, 0, Taken(o)),
                        !.log = Append(@, LogEntry(tier, 0, Taken(o), o.raises))])
    /\ UNCHANGED <<content_items, NotFetch>>

\* _fetch_youtube on a feed URL
YoutubeFeed == SingleTier("yt_feed")
\* _fetch_youtube on a channel URL
YoutubeDlp == SingleTier("yt_dlp")
\* _fetch_rss
FetchRss == SingleTier("rss")

BoostedFirstOnly(items, source_id, workspace_id, copies) ==
    [j \in 1..Min(Len(items), 1) * copies |->
        [source_id |-> source_id, workspace_id |-> workspace_id, item |-> items[1]]]
NumCopiesRounded(boost_factor) == Max(1, (boost_factor + 5) \div 10)
\* max(1, int(boost_factor)), boost_factor in tenths
NumCopies(boost_factor) == Max(1, boost_factor \div 10)

\* boosted_items: every item tagged and appended num_copies times
Boosted(items, source_id, workspace_id, copies) ==
    [j \in 1..(Len(items) * copies) |->
        [source_id |-> source_id, workspace_id |-> workspace_id,
         item |-> items[((j - 1) \div copies) + 1]]]

\* fetch_all_sources: the rest of the loop body for the current source
Boost ==
    /\ fetcher.pc = "boost"
    /\ LET s == fetcher.sources[fetcher.idx]
           b == Boosted(fetcher.items, s.id, fetcher.workspace_id, NumCopies(s.boost_factor))
       IN fetcher' = Enter([fetcher EXCEPT !.collected = @ \o b,
                                           !.fetched = Append(@, Len(fetcher.items))],
                           fetcher.idx + 1)
    /\ UNCHANGED <<content_items, NotFetch>>

\* save_content_items: the rows built from the items (workspace_id only when truthy)
Rows(items, workspace_id) ==
    [i \in 1..Len(items) |->
        [user_id |-> "uA", source_id |-> items[i].source_id, item |-> items[i].item,
         workspace_id |-> workspace_id]]

\* save_content_items: nothing to save, or the bulk upsert, which persists the
\* rows or raises and leaves the table alone
SaveContentItems ==
    /\ fetcher.pc = "save"
    /\ LET f == [fetcher EXCEPT !.save_calls = @ + 1]
           rows == Rows(fetcher.collected, fetcher.workspace_id)
       IN IF fetcher.collected = <<>>
          THEN /\ fetcher' = [f EXCEPT !.pc = "done", !.ret = 0]
               /\ UNCHANGED content_items
          ELSE \/ /\ fetcher' = [f EXCEPT !.pc = "done", !.rows = rows, !.upsert = "ok",
                                          !.ret = Len(rows)]
                  /\ content_items' = content_items \o rows
               \/ /\ Len(rows) <= MaxInsertRows
                  /\ fetcher' = [f EXCEPT !.pc = "insert", !.rows = rows, !.upsert = "failed"]
                  /\ UNCHANGED content_items
    /\ UNCHANGED NotFetch

InsertErrorAborts(f) == [f EXCEPT !.pc = "raised"]
\* save_content_items, per-row fallback: `except Exception: pass`
InsertError(f) == f

\* save_content_items, per-row fallback: one insert, then `return len(rows)`
\* after the last row
InsertRow ==
    /\ fetcher.pc = "insert"
    /\ LET i == Len(fetcher.inserted) + 1
           EndLoop(f) == IF f.pc = "insert" /\ i = Len(f.rows)
                         THEN [f EXCEPT !.pc = "done", !.ret = Len(f.rows)] ELSE f
       IN \/ /\ content_items' = Append(content_items, fetcher.rows[i])
             /\ fetcher' = EndLoop([fetcher EXCEPT !.inserted = Append(@, TRUE)])
          \/ /\ UNCHANGED content_items
             /\ fetcher' = EndLoop(InsertError([fetcher EXCEPT !.inserted = Append(@, FALSE)]))
    /\ UNCHANGED NotFetch

\* ---------------------------------------------------------- trend engine
\* a caller calls compute_trends(items) and gets the ranked pairs
ComputeTrends ==
    /\ trend.pc = "idle"
    /\ trend' = [trend EXCEPT !.pc = "done",
                              !.recent_counter = CounterOf(trend.items, "recent"),
                              !.baseline_counter = CounterOf(trend.items, "baseline"),
                              !.ret = ComputeTrendsResult(trend.items, trend.seed)]
    /\ UNCHANGED NotTrend

\* a second call on the same items and the same `now`, in this process or in
\* another one (a worker, a later run), whose hash seed is its own
ComputeTrendsAgain ==
    /\ trend.pc = "done"
    /\ \E seed2 \in HashSeeds :
          trend' = [trend EXCEPT !.pc = "again", !.seed2 = seed2,
                                 !.ret2 = ComputeTrendsResult(trend.items, seed2)]
    /\ UNCHANGED NotTrend

\* ------------------------------------------------------------- send_email
\* send_email up to requests.post: without RESEND_API_KEY it raises, otherwise
\* the delivery request is issued
SendEmailPost ==
    \E key \in BOOLEAN, to \in ToEmails, subject \in Subjects :
        /\ mail.pc = "idle"
        /\ LET m == [mail EXCEPT !.api_key = key, !.to_email = to, !.subject = subject]
           IN mail' = IF ~key
                      THEN [m EXCEPT !.pc = "raised",
                                     !.exc = [NoMailError EXCEPT !.type = "RuntimeError",
                                                                 !.text = "RESEND_API_KEY not set"]]
                      ELSE [m EXCEPT !.pc = "posted",
                                     !.requests = Append(@, [to |-> <<to>>, subject |-> subject])]
        /\ UNCHANGED <<Core, limiter, client>>

IsErrorAbove(status) == status > ErrorStatus
\* `if resp.status_code >= 400`
IsError(status) == status >= ErrorStatus

\* send_email after requests.post: the response is checked, or the request
\* itself raised (timeout, connection error)
SendEmailResponse ==
    /\ mail.pc = "posted"
    /\ \/ \E resp \in Responses :
             LET m == [mail EXCEPT !.status = resp.status, !.text = resp.text]
             IN mail' = IF IsError(resp.status)
                        THEN [m EXCEPT !.pc = "raised",
                                 !.exc = [type |-> "RuntimeError", status |-> resp.status,
                                          text |-> resp.text,
                                          hint |-> resp.status = 403
                                                   /\ resp.text = "The domain is not verified"]]
                        ELSE [m EXCEPT !.pc = "returned"]
       \/ mail' = [mail EXCEPT !.pc = "raised",
                               !.exc = [NoMailError EXCEPT !.type = "RequestException"]]
    /\ UNCHANGED <<Core, limiter, client>>

\* ------------------------------------------------------------ RateLimiter
\* time.time() moves on
Tick ==
    /\ limiter.now < MaxClock
    /\ limiter' = [limiter EXCEPT !.now = @ + 1]
    /\ UNCHANGED <<Core, mail, client>>

AtLimitAbove(n, limit) == n > limit
\* `if len(self.requests[key]) >= limit`
AtLimit(n, limit) == n >= limit

\* RateLimiter.is_allowed: the value returned and self.requests afterwards
IsAllowed(requests, key, limit, window_seconds, now) ==
    LET window_start == now - window_seconds
        cleaned == IF key \in DOMAIN requests
                   THEN SelectSeq(requests[key], LAMBDA req_time : req_time > window_start)
                   ELSE <<>>
    IN IF AtLimit(Len(cleaned), limit)
       THEN [ret |-> FALSE, requests |-> Put(requests, key, cleaned)]
       ELSE [ret |-> TRUE, requests |-> Put(requests, key, Append(cleaned, now))]

\* a caller calls is_allowed(key, limit, window_seconds) on the limiter
IsAllowedCall ==
    \E key \in RateKeys :
        LET r == IsAllowed(limiter.requests, key, limiter.limit,
                           limiter.window_seconds, limiter.now)
        IN /\ limiter' = [limiter EXCEPT
                             !.requests = r.requests,
                             !.last = [key |-> key, ret |-> r.ret],
                             !.allowed[key] = IF r.ret THEN Append(@, limiter.now) ELSE @]
           /\ UNCHANGED <<Core, mail, client>>

\* self.requests of the RateLimiter() the wrapper of rate_limit creates
NewLimiterRequests == <<>>

\* a call of a function decorated with @rate_limit(limit, window_seconds): the
\* wrapper creates a RateLimiter, asks it, and raises or calls the function
RateLimitedCall ==
    \E key \in RateKeys :
        LET r == IsAllowed(NewLimiterRequests, key, limiter.limit,
                           limiter.window_seconds, limiter.now)
        IN /\ Len(limiter.invoked["k1"]) + Len(limiter.invoked["k2"]) < MaxWrappedCalls
           /\ limiter' = [limiter EXCEPT
                             !.wrapped = [key |-> key, ret |-> r.ret],
                             !.invoked[key] = IF r.ret THEN Append(@, limiter.now) ELSE @]
           /\ UNCHANGED <<Core, mail, client>>

Next ==
    \/ CreateOperation
    \/ SaveDraft
    \/ \E c \in CallIds : Begin(c)
    \/ \E c \in CallIds : SetRunning(c)
    \/ \E c \in CallIds : FetchTarget(c)
    \/ \E c \in CallIds : GenerateTarget(c)
    \/ \E c \in CallIds : SendLookup(c)
    \/ \E c \in CallIds : SendEmail(c)
    \/ \E c \in CallIds : MarkSent(c)
    \/ \E c \in CallIds : Finalize(c)
    \/ \E c \in CallIds : Handler(c)

Spec == Init /\ [][Next]_vars

\* the draft pipeline alone: one call in each environment
InitDraft ==
    /\ bulk_operations = [o \in OpIds |-> NoRow]
    /\ users = UserIds
    /\ drafts = <<>>
    /\ invocations = {}
    /\ calls = [c \in CallIds |-> IdleFrame]
    /\ \E env \in GenEnvs : gen = GenIdle(env)
    /\ fetcher = FetchIdle
    /\ content_items = <<>>
    /\ mail = MailIdle
    /\ limiter = LimiterIdle
    /\ client = ClientIdle
    /\ trend = TrendIdle(<<>>, 0)

NextDraft ==
    \/ GenCall
    \/ GenLoad
    \/ GenAttempt
    \/ GenSave

SpecDraft == InitDraft /\ [][NextDraft]_vars

\* the content aggregator alone: one fetch_all_sources call
InitFetch ==
    /\ bulk_operations = [o \in OpIds |-> NoRow]
    /\ users = UserIds
    /\ drafts = <<>>
    /\ invocations = {}
    /\ calls = [c \in CallIds |-> IdleFrame]
    /\ gen = GenIdle([items |-> 0, api_key |-> FALSE, sdk |-> FALSE])
    /\ fetcher = FetchIdle
    /\ content_items = <<>>
    /\ mail = MailIdle
    /\ limiter = LimiterIdle
    /\ client = ClientIdle
    /\ trend = TrendIdle(<<>>, 0)

NextFetch ==
    \/ FetchAllSources
    \/ TwitterPrimary
    \/ TwitterMirror
    \/ TwitterHtml
    \/ YoutubeFeed
    \/ YoutubeDlp
    \/ FetchRss
    \/ Boost
    \/ SaveContentItems
    \/ InsertRow

SpecFetch == InitFetch /\ [][NextFetch]_vars

\* the trend engine alone: one compute_trends call on each item list
InitTrend ==
    /\ bulk_operations = [o \in OpIds |-> NoRow]
    /\ users = UserIds
    /\ drafts = <<>>
    /\ invocations = {}
    /\ calls = [c \in CallIds |-> IdleFrame]
    /\ gen = GenIdle([items |-> 0, api_key |-> FALSE, sdk |-> FALSE])
    /\ fetcher = FetchIdle
    /\ content_items = <<>>
    /\ mail = MailIdle
    /\ limiter = LimiterIdle
    /\ client = ClientIdle
    /\ \E items \in TrendItemLists, seed \in HashSeeds : trend = TrendIdle(items, seed)

NextTrend ==
    \/ ComputeTrends
    \/ ComputeTrendsAgain

SpecTrend == InitTrend /\ [][NextTrend]_vars

\* the idle state of everything but the services
CoreIdle ==
    /\ bulk_operations = [o \in OpIds |-> NoRow]
    /\ users = UserIds
    /\ drafts = <<>>
    /\ invocations = {}
    /\ calls = [c \in CallIds |-> IdleFrame]
    /\ gen = GenIdle([items |-> 0, api_key |-> FALSE, sdk |-> FALSE])
    /\ fetcher = FetchIdle
    /\ content_items = <<>>
    /\ trend = TrendIdle(<<>>, 0)

\* send_email alone: one call
InitMail ==
    /\ CoreIdle
    /\ mail = MailIdle
    /\ limiter = LimiterIdle
    /\ client = ClientIdle

NextMail ==
    \/ SendEmailPost
    \/ SendEmailResponse

SpecMail == InitMail /\ [][NextMail]_vars

\* a RateLimiter, or a decorated function, for each limit and window
InitRate ==
    /\ CoreIdle
    /\ mail = MailIdle
    /\ \E limit \in RateLimits, w \in RateWindows :
          limiter = [LimiterIdle EXCEPT !.limit = limit, !.window_seconds = w]
    /\ client = ClientIdle

NextRate ==
    \/ Tick
    \/ IsAllowedCall

SpecRate == InitRate /\ [][NextRate]_vars

\* a function under @rate_limit called as time goes by
NextDecorated ==
    \/ Tick
    \/ RateLimitedCall

SpecDecorated == InitRate /\ [][NextDecorated]_vars

\* -------------------------------------------------------------- get_client
\* thread t steps to frame f of get_client
Thread(t, f) == [client.threads EXCEPT ![t] = f]

\* a thread calls get_client: `if _client is not None: return _client`
GetClient(t) ==
    LET f == client.threads[t] IN
    /\ f.pc \in {"idle", "returned", "raised"}
    /\ IF client.global # 0
          THEN client' = [client EXCEPT
                  !.threads = Thread(t, [pc |-> "returned", made |-> 0, ret |-> client.global]),
                  !.returns = @ \cup {client.global}]
          ELSE client' = [client EXCEPT
                  !.threads = Thread(t, [pc |-> "getenv", made |-> 0, ret |-> 0])]
    /\ UNCHANGED <<Core, mail, limiter>>

\* url = os.getenv(..); key = os.getenv(..); raise RuntimeError without both
Getenv(t) ==
    LET f == client.threads[t] IN
    /\ f.pc = "getenv"
    /\ client' = [client EXCEPT
          !.threads = Thread(t, [f EXCEPT !.pc = IF client.env THEN "create" ELSE "raised"])]
    /\ UNCHANGED <<Core, mail, limiter>>

\* create_client(url, key): a new instance
CreateClient(t) ==
    LET f == client.threads[t] IN
    /\ f.pc = "create"
    /\ client' = [client EXCEPT
          !.constructed = @ + 1,
          !.threads = Thread(t, [f EXCEPT !.pc = "assign", !.made = client.constructed + 1])]
    /\ UNCHANGED <<Core, mail, limiter>>

\* _client = <the new instance>
AssignClient(t) ==
    LET f == client.threads[t] IN
    /\ f.pc = "assign"
    /\ client' = [client EXCEPT
          !.global = f.made,
          !.threads = Thread(t, [f EXCEPT !.pc = "return"])]
    /\ UNCHANGED <<Core, mail, limiter>>

\* return _client: the global is read again
ReturnClient(t) ==
    LET f == client.threads[t] IN
    /\ f.pc = "return"
    /\ client' = [client EXCEPT
          !.threads = Thread(t, [f EXCEPT !.pc = "returned", !.ret = client.global]),
          !.returns = @ \cup {client.global}]
    /\ UNCHANGED <<Core, mail, limiter>>

\* the credentials appear in, or disappear from, the environment
Setenv ==
    /\ client' = [client EXCEPT !.env = ~ @]
    /\ UNCHANGED <<Core, mail, limiter>>

InitClient ==
    /\ CoreIdle
    /\ mail = MailIdle
    /\ limiter = LimiterIdle
    /\ client \in {[ClientIdle EXCEPT !.env = e] : e \in BOOLEAN}

NextClient ==
    \/ \E t \in Threads : GetClient(t)
    \/ \E t \in Threads : Getenv(t)
    \/ \E t \in Threads : CreateClient(t)
    \/ \E t \in Threads : AssignClient(t)
    \/ \E t \in Threads : ReturnClient(t)
    \/ Setenv

SpecClient == InitClient /\ [][NextClient]_vars

\* ------------------------------------------------------------- properties
Terminal == {"completed", "failed"}
FailedKeys(results) == {t \in DOMAIN results : results[t].status = "failed"}
SuccessKeys(results) == {t \in DOMAIN results : results[t].status = "success"}
Distinct(targets) == Cardinality(Range(targets)) = Len(targets)
EmailedFor(w) == \E i \in invocations : i.fn = "send_email" /\ i.workspace_id = w

\* The state part of C1: a call that returns normally returns status
\* "completed", the outer handler is only ever entered by a failing store
\* write, and a row stored as completed has an entry for every target, every
\* occurrence of a target counted once and every failed entry counted in
\* progress.failed (exactly, when the targets are distinct).
C1_State ==
    /\ \A c \in CallIds : calls[c].pc = "returned" => calls[c].ret = "completed"
    /\ \A c \in CallIds : calls[c].pc = "handler" => calls[c].exc \in StoreErrors
    /\ \A o \in OpIds :
          LET row == bulk_operations[o] IN
          row.status = "completed" =>
             /\ DOMAIN row.results = Range(row.target_workspaces)
             /\ row.progress.completed + row.progress.failed = Len(row.target_workspaces)
             /\ Cardinality(FailedKeys(row.results)) <= row.progress.failed
             /\ Distinct(row.target_workspaces) =>
                   Cardinality(FailedKeys(row.results)) = row.progress.failed

\* The step part of C1: an iteration that ends records its outcome under its
\* own target and counts it once, a failure as failed in progress.failed, and
\* the loop goes on with the next target; the stored status is not touched.
C1_Step ==
    \A c \in CallIds :
       LET f == calls[c] g == calls'[c] w == f.targets[f.idx] IN
       (f.pc \in {"loop", "send", "mark"} /\ f.idx <= Len(f.targets) /\ g # f) =>
          /\ bulk_operations' = bulk_operations
          /\ g.targets = f.targets
          /\ \/ g.pc \in {"send", "mark"} /\ g.idx = f.idx
                   /\ g.results = f.results /\ g.progress = f.progress
             \/ /\ g.pc = "loop" /\ g.idx = f.idx + 1
                /\ w \in DOMAIN g.results
                /\ \A t \in DOMAIN f.results \ {w} : g.results[t] = f.results[t]
                /\ \/ /\ g.results[w].status = "failed"
                      /\ g.progress = [f.progress EXCEPT !.failed = @ + 1]
                   \/ /\ g.results[w].status = "success"
                      /\ g.progress = [f.progress EXCEPT !.completed = @ + 1]

\* C1: per-target failures never fail the operation: every target of the list
\* is processed, each failure is recorded in results[target] and counted in
\* progress.failed, and the operation ends completed, also when every target
\* failed.
C1_BestEffortFanOut == [](C1_State) /\ [][C1_Step]_vars

\* a send operation of three targets that all failed, one of them by an
\* exception of the email collaborator, stored as completed
C1_Witness ==
    \E o \in OpIds :
       LET row == bulk_operations[o] IN
       /\ row.status = "completed"
       /\ row.operation_type = "newsletter_send"
       /\ Len(row.target_workspaces) = 3
       /\ row.progress.failed = 3
       /\ \E t \in FailedKeys(row.results) : row.results[t].error = SendError.msg
       /\ \E c \in CallIds : calls[c].pc = "returned"

\* C2 (as claimed): a stored status that is completed or failed is never
\* rewritten to running or pending.
C2_StatusNeverRegresses ==
    [][\A o \in OpIds :
          bulk_operations[o].status \in Terminal =>
             bulk_operations'[o].status \notin {"running", "pending"}]_vars

\* C3 (as claimed): whenever the stored status is terminal, the stored progress
\* has completed + failed = total and total is the number of targets.
C3_TerminalProgressAddsUp ==
    \A o \in OpIds :
       LET row == bulk_operations[o] IN
       row.status \in Terminal =>
          /\ row.progress.completed + row.progress.failed = row.progress.total
          /\ row.progress.total = Len(row.target_workspaces)

\* C4: for a completed newsletter_send over distinct targets, progress.total is
\* the number of targets, progress.completed the number of success entries and
\* progress.failed the number of failed entries; every success entry has its
\* email sent; B (no members) is failed; and for <<A, B, C>> with A and C
\* succeeding progress is {total: 3, completed: 2, failed: 1}.
C4_SendCounts ==
    \A o \in OpIds :
       LET row == bulk_operations[o] IN
       (/\ row.status = "completed"
        /\ row.operation_type = "newsletter_send"
        /\ Distinct(row.target_workspaces)) =>
          /\ row.progress.total = Len(row.target_workspaces)
          /\ row.progress.completed = Cardinality(SuccessKeys(row.results))
          /\ row.progress.failed = Cardinality(FailedKeys(row.results))
          /\ \A t \in SuccessKeys(row.results) : EmailedFor(t)
          /\ "B" \in DOMAIN row.results => row.results["B"].status = "failed"
          /\ (/\ row.target_workspaces = <<"A", "B", "C">>
              /\ {"A", "C"} \subseteq SuccessKeys(row.results)) =>
                 row.progress = [total |-> 3, completed |-> 2, failed |-> 1]

\* the scenario of the claim: A, B, C with A and C sent
C4_Witness ==
    \E o \in OpIds :
       LET row == bulk_operations[o] IN
       /\ row.status = "completed"
       /\ row.operation_type = "newsletter_send"
       /\ row.target_workspaces = <<"A", "B", "C">>
       /\ {"A", "C"} \subseteq SuccessKeys(row.results)
       /\ row.results["B"] = Failed("No members found")

\* C5: in every kind, the iteration for a target without members records
\* {failed, "No members found"} for it, adds exactly one to progress.failed,
\* touches no other entry, calls no collaborator, writes no draft and moves on
\* to the next target.
C5_NoMembers ==
    [][\A c \in CallIds :
          LET f == calls[c] g == calls'[c] IN
          (/\ f.pc = "loop" /\ f.idx <= Len(f.targets)
           /\ MemberOf(f.targets[f.idx]) = <<>>
           /\ g # f) =>
             /\ g.results = Put(f.results, f.targets[f.idx], Failed("No members found"))
             /\ g.progress = [f.progress EXCEPT !.failed = @ + 1]
             /\ g.idx = f.idx + 1 /\ g.pc = "loop" /\ g.targets = f.targets
             /\ invocations' = invocations
             /\ drafts' = drafts]_vars

\* a generate call that recorded B as without members and goes on with the
\* next target
C5_Witness ==
    \E c \in CallIds :
       /\ calls[c].pc = "loop" /\ calls[c].kind = "draft_generate"
       /\ calls[c].idx <= Len(calls[c].targets)
       /\ calls[c].idx >= 2 /\ calls[c].targets[calls[c].idx - 1] = "B"
       /\ calls[c].results["B"] = Failed("No members found")

SentEmails(invs) == {i \in invs : i.fn = "send_email"}

\* C6: in execute_bulk_send, for a target with a member whose user row exists:
\* when the latest draft is missing or has no text the target is recorded
\* failed and that iteration sends no email and marks no draft; otherwise the
\* email (with the draft's text) goes to the acting user's address before any
\* draft is marked, a failing send records the target failed and leaves the
\* drafts as they are, sent flags are only ever set by the mark step that
\* follows a successful send, and a success entry names that recipient.
C6_SendThenMark ==
    [][/\ \A c \in CallIds :
             LET f == calls[c]
                 g == calls'[c]
                 w == f.targets[f.idx]
                 u == MemberOf(w)[1].user_id
             IN /\ (/\ f.pc = "loop" /\ f.kind = "newsletter_send"
                    /\ f.idx <= Len(f.targets) /\ g # f
                    /\ MemberOf(w) # <<>> /\ u \in users
                    /\ (GetLatestDraft(drafts, u) = NoDraft
                          \/ GetLatestDraft(drafts, u).draft_text = "")) =>
                      /\ g.pc = "loop" /\ g.idx = f.idx + 1
                      /\ w \in DOMAIN g.results
                      /\ g.results[w].status = "failed"
                      /\ g.progress.failed = f.progress.failed + 1
                      /\ invocations' = invocations
                      /\ drafts' = drafts
                /\ (f.pc = "send" /\ g # f) =>
                      /\ drafts' = drafts
                      /\ f.latest.id # 0 /\ f.latest.draft_text # ""
                      /\ \/ /\ g.pc = "mark" /\ g.results = f.results
                            /\ SentEmails(invocations') = SentEmails(invocations) \cup
                                  {Invocation("send_email", w, u, f.latest)}
                         \/ /\ g.pc = "loop" /\ g.idx = f.idx + 1
                            /\ g.results[w].status = "failed"
                            /\ SentEmails(invocations') = SentEmails(invocations)
                /\ (f.pc = "mark" /\ g # f) =>
                      /\ Invocation("send_email", w, u, f.latest) \in invocations
                      /\ g.results[w].status = "success" =>
                            /\ g.results[w].recipient = EmailOf(u)
                            /\ g.progress.completed = f.progress.completed + 1
                      /\ g.results[w].status = "failed" => drafts' = drafts
       /\ (\E i \in 1..Len(drafts) : ~drafts[i].sent /\ drafts'[i].sent) =>
             \E c \in CallIds :
                /\ calls[c].pc = "mark" /\ calls'[c] # calls[c]
                /\ calls'[c].results[calls[c].targets[calls[c].idx]].status = "success"]_vars

\* a completed send in which A was emailed and its draft marked sent while C
\* had no usable draft
C6_Witness ==
    \E o \in OpIds :
       LET row == bulk_operations[o] IN
       /\ row.status = "completed"
       /\ row.operation_type = "newsletter_send"
       /\ {"A", "C"} \subseteq DOMAIN row.results
       /\ row.results["A"].status = "success"
       /\ row.results["A"].recipient = EmailOf("uA")
       /\ row.results["C"] = Failed("No draft available")
       /\ \E i \in 1..Len(drafts) : drafts[i].user_id = "uA" /\ drafts[i].sent
       /\ \E i \in 1..Len(drafts) : drafts[i].user_id = "uC" /\ drafts[i].draft_text = ""

\* C7 (as claimed): in a completed draft_generate operation every target that
\* has a member is recorded as a success.
C7_GenerateRecordsSuccess ==
    \A o \in OpIds :
       LET row == bulk_operations[o] IN
       (row.status = "completed" /\ row.operation_type = "draft_generate") =>
          \A t \in Range(row.target_workspaces) :
             MemberOf(t) # <<>> => row.results[t].status = "success"

C9_ResultsWriteOnce ==
    [][\A c \in CallIds :
          LET f == calls[c] g == calls'[c] IN
          (f.pc \in {"loop", "send", "mark"} /\ g.pc = "loop" /\ g.idx = f.idx + 1) =>
             f.targets[f.idx] \notin DOMAIN f.results]_vars

\* C10 (as claimed): generate_draft makes at most MaxAttempts attempts and
\* generate_and_save_draft never ends with an exception.
C10_RetryThenFallback ==
    /\ gen.attempt <= MaxAttempts
    /\ gen.pc # "raised"

\* ------------------------------------------- properties of the fetcher
\* the place of a queried tier in the chain of _fetch_twitter
TierRank(e) ==
    IF e.tier = "primary" THEN 0
    ELSE IF e.tier = "mirror" THEN e.host
    ELSE Len(NitterHosts) + e.host
\* the _fetch_* call of the current source has returned
Fetched == fetcher.pc \in {"boost", "save", "insert", "done"} /\ fetcher.log # <<>>

\* C11 (as claimed): the tiers of a twitter source are queried in strict order
\* and nothing is queried after a tier that yielded an item: no mirror after
\* the primary scraper or after a mirror that had entries, and the HTML tier
\* only when every earlier tier yielded nothing.
C11_TiersShortCircuit ==
    \A i, j \in DOMAIN fetcher.log :
       i < j => /\ TierRank(fetcher.log[i]) < TierRank(fetcher.log[j])
                /\ fetcher.log[i].yielded = 0

\* C12: no _fetch_* call raises: a failing tier is followed by the next tier,
\* and a twitter fetch that ends without items has gone through the primary
\* tier, every mirror in order and the HTML tier, and returned the empty list.
C12_FetchNeverRaises ==
    /\ fetcher.pc # "raised"
    /\ (Fetched /\ \A i \in DOMAIN fetcher.log : fetcher.log[i].yielded = 0)
          => fetcher.items = <<>>
    /\ (Fetched /\ fetcher.log[1].tier = "primary" /\ fetcher.items = <<>>) =>
          /\ Len(fetcher.log) > Len(NitterHosts) + 1
          /\ \A h \in 1..Len(NitterHosts) :
                fetcher.log[h + 1].tier = "mirror" /\ fetcher.log[h + 1].host = h
          /\ \A i \in DOMAIN fetcher.log :
                i > Len(NitterHosts) + 1 => fetcher.log[i].tier = "html"

\* a twitter fetch in which the scraper, every mirror and the first proxied
\* page raised, and that returned the empty list
C12_Witness ==
    /\ fetcher.pc = "boost"
    /\ Len(fetcher.log) = Len(NitterHosts) + 2
    /\ \A i \in DOMAIN fetcher.log : fetcher.log[i].raised
    /\ fetcher.items = <<>>

\* C13 (as claimed): a fetch returns at most FetchCap items, and exactly the
\* number of upstream entries when the tier that ended the chain had fewer
\* than FetchCap of them.
C13_AtMostTen ==
    Fetched =>
       LET last == fetcher.log[Len(fetcher.log)] IN
       /\ Len(fetcher.items) <= FetchCap
       /\ (~last.raised /\ last.yielded > 0 /\ last.yielded < FetchCap)
             => Len(fetcher.items) = last.yielded

\* the copies per item the contract gives a boost factor in (0, 3], in tenths
ExpectedCopies(boost_factor) ==
    IF boost_factor < 20 THEN 1 ELSE IF boost_factor < 30 THEN 2 ELSE 3
RECURSIVE RowsExpected(_, _, _)
\* the sum over the first n sources of items fetched x copies per item
RowsExpected(sources, fetched, n) ==
    IF n = 0 THEN 0
    ELSE RowsExpected(sources, fetched, n - 1)
         + fetched[n] * ExpectedCopies(sources[n].boost_factor)

\* C14: fetch_all_sources makes one save call, after the last source, with the
\* merged items of all sources, and returns the number of rows attempted: the
\* sum over the sources of items fetched x copies per item.
C14_OneSaveCountsRows ==
    /\ fetcher.save_calls = IF fetcher.pc \in {"insert", "done"} THEN 1 ELSE 0
    /\ fetcher.pc = "done" =>
          /\ Len(fetcher.fetched) = Len(fetcher.sources)
          /\ fetcher.ret = RowsExpected(fetcher.sources, fetcher.fetched, Len(fetcher.sources))
          /\ fetcher.ret = Len(fetcher.collected)
          /\ fetcher.collected # <<>> => fetcher.rows = Rows(fetcher.collected, fetcher.workspace_id)

\* an rss source returning 3 items, then a twitter source whose scraper raises
\* and whose first mirror returns 2 entries, both at boost 1.0: 5 rows
C14_Witness ==
    /\ fetcher.pc = "done"
    /\ Len(fetcher.sources) = 2
    /\ fetcher.sources[1].source_type = "rss" /\ fetcher.sources[1].boost_factor = 10
    /\ fetcher.sources[2].source_type = "twitter" /\ fetcher.sources[2].boost_factor = 10
    /\ fetcher.fetched = <<3, 2>>
    /\ fetcher.log = <<LogEntry("primary", 0, 0, TRUE), LogEntry("mirror", 1, 2, FALSE)>>
    /\ fetcher.ret = 5

\* C15: every item fetched from a source is in the merged list exactly
\* max(1, floor(boost_factor)) times, each copy with the source's id and the
\* workspace_id of the call.
C15_BoostCopies ==
    \A i \in DOMAIN fetcher.fetched :
       LET src == fetcher.sources[i]
           mine == {j \in DOMAIN fetcher.collected : fetcher.collected[j].source_id = src.id}
       IN /\ Cardinality(mine) = fetcher.fetched[i] * ExpectedCopies(src.boost_factor)
          /\ \A j \in mine :
                /\ fetcher.collected[j].workspace_id = fetcher.workspace_id
                /\ Cardinality({k \in mine : fetcher.collected[k].item = fetcher.collected[j].item})
                      = ExpectedCopies(src.boost_factor)

\* a call for workspace W1 with a source at boost 2.4 that yielded 2 items
\* (4 copies) and a source at boost below 2 that yielded items
C15_Witness ==
    /\ fetcher.pc = "done" /\ fetcher.workspace_id = "W1"
    /\ Len(fetcher.sources) = 2
    /\ fetcher.sources[1].boost_factor = 24 /\ fetcher.fetched[1] = 2
    /\ fetcher.sources[2].boost_factor = 19 /\ fetcher.fetched[2] = 1
    /\ Len(fetcher.collected) = 5

RECURSIVE Kept(_, _, _)
\* the first n rows whose insert succeeded, in order
Kept(rows, inserted, n) ==
    IF n = 0 THEN <<>>
    ELSE IF inserted[n] THEN Append(Kept(rows, inserted, n - 1), rows[n])
    ELSE Kept(rows, inserted, n - 1)

\* C16: after a failed bulk upsert the rows are inserted one by one; a failing
\* insert does not stop the loop, the rows whose insert succeeded are
\* persisted, and the call returns the number of rows without raising.
C16_PerRowFallback ==
    fetcher.upsert = "failed" =>
       /\ fetcher.pc \in {"insert", "done"}
       /\ content_items = Kept(fetcher.rows, fetcher.inserted, Len(fetcher.inserted))
       /\ fetcher.pc = "done" =>
             /\ Len(fetcher.inserted) = Len(fetcher.rows)
             /\ fetcher.ret = Len(fetcher.rows)

\* three rows after a failed upsert: the second insert failed, the first and
\* the third row are persisted
C16_Witness ==
    /\ fetcher.pc = "done" /\ fetcher.upsert = "failed"
    /\ fetcher.inserted = <<TRUE, FALSE, TRUE>>
    /\ content_items = <<fetcher.rows[1], fetcher.rows[3]>>
    /\ fetcher.ret = 3

\* ------------------------------------ properties of the draft pipeline
\* C17 (as claimed): a call with selected_item_ids=[] returns "" and saves no
\* draft, whatever rows the user has; a call with selected_item_ids=None
\* drafts from all the rows loaded.
C17_EmptySelectionDraftsNothing ==
    /\ (gen.pc = "done" /\ gen.selected.given /\ gen.selected.ids = <<>>)
          => gen.draft_text = "" /\ drafts = <<>>
    /\ (gen.pc \in {"attempt", "generated", "done"} /\ ~gen.selected.given /\ gen.env.items > 0)
          => Len(gen.content_items) = Min(gen.env.items, ContentLimit)

\* the call has nothing to draft from: no rows, or ids given of which none is
\* the id of a loaded row
NoContent ==
    \/ gen.env.items = 0
    \/ /\ gen.selected.given /\ gen.selected.ids # <<>>
       /\ \A i \in 1..Len(gen.selected.ids) : gen.selected.ids[i] \notin 1..gen.env.items

C19_FallbackLinkCount ==
    (gen.pc \in {"generated", "done"} /\ gen.attempt > 0 /\ ~gen.env.api_key)
       => gen.draft_text = FallbackDraft(gen.content_items, gen.num_links)

\* --------------------------------------- properties of the trend engine
\* the occurrences of term in the items of a window, counted over the raw
\* texts (term is never a stopword or a short word here)
WindowCount(window, term) ==
    LET InWindow(it) ==
            IF window = "recent"
            THEN it.created_at.kind = "iso" /\ it.created_at.age <= RecentHours
            ELSE it.created_at.kind # "iso" \/ it.created_at.age > RecentHours
        hits == UNION {{<<i, k>> : k \in {k \in DOMAIN trend.items[i].text :
                                             trend.items[i].text[k] = term}} :
                       i \in {i \in DOMAIN trend.items : InWindow(trend.items[i])}}
    IN Cardinality(hits)
\* the terms of the result
Returned == {trend.ret[i].term : i \in DOMAIN trend.ret}

\* C20: compute_trends returns at most 10 pairs, each with
\* score = recent_count - 0.5 * baseline_count > 0, in non-increasing score
\* order, and no term left out scores higher than a returned one (a term with
\* a positive score is left out only when 10 are returned).
C20_TopTrends ==
    trend.pc # "idle" =>
       /\ Len(trend.ret) <= TopTrends
       /\ \A i \in DOMAIN trend.ret :
             /\ trend.ret[i].score =
                   2 * WindowCount("recent", trend.ret[i].term)
                   - WindowCount("baseline", trend.ret[i].term)
             /\ trend.ret[i].score > 0
             /\ \A j \in DOMAIN trend.ret : i < j => trend.ret[i].score >= trend.ret[j].score
             /\ \A j \in DOMAIN trend.ret : i # j => trend.ret[i].term # trend.ret[j].term
       /\ \A w \in (Range(Vocabulary) \ (Stopwords \cup {"api"})) \ Returned :
             LET sc == 2 * WindowCount("recent", w) - WindowCount("baseline", w)
             IN /\ \A i \in DOMAIN trend.ret : sc <= trend.ret[i].score
                /\ sc > 0 => Len(trend.ret) = TopTrends

\* alpha seen 5 times in the recent window and never in baseline, beta seen 4
\* times in baseline only, and eleven more recent terms: alpha is first with
\* score 5.0, beta is left out, 10 of the 12 positive terms are returned
C20_Witness ==
    /\ trend.pc = "done"
    /\ Len(trend.items) = 3
    /\ WindowCount("recent", "alpha") = 5 /\ WindowCount("baseline", "alpha") = 0
    /\ WindowCount("recent", "beta") = 0 /\ WindowCount("baseline", "beta") = 4
    /\ WindowCount("recent", "term01") = 1
    /\ Len(trend.ret) = TopTrends
    /\ trend.ret[1] = [term |-> "alpha", score |-> 10]
    /\ "beta" \notin Returned

\* the count a Counter holds for a term
CountIn(counter, w) == IF w \in DOMAIN counter THEN counter[w] ELSE 0
\* the terms the item texts can contribute
Terms == Range(Vocabulary) \ (Stopwords \cup {"api"})

\* C21: every item's terms are counted in exactly one window: in the recent
\* counter when its timestamp is at most 48 hours before now, in the baseline
\* counter when it is older (within 7 days or not) or missing or unparseable.
C21_OneWindowPerItem ==
    trend.pc # "idle" =>
       \A w \in Terms :
          /\ CountIn(trend.recent_counter, w) = WindowCount("recent", w)
          /\ CountIn(trend.baseline_counter, w) = WindowCount("baseline", w)
          /\ CountIn(trend.recent_counter, w) + CountIn(trend.baseline_counter, w)
                = Cardinality(UNION {{<<i, k>> : k \in {k \in DOMAIN trend.items[i].text :
                                                          trend.items[i].text[k] = w}} :
                                     i \in DOMAIN trend.items})

\* an item 48 hours old, one more than 7 days old and one without timestamp:
\* the first counts as recent, the other two as baseline
C21_Witness ==
    /\ trend.pc = "done"
    /\ Len(trend.items) = 3
    /\ trend.items[1].created_at = [kind |-> "iso", age |-> 48]
    /\ trend.items[2].created_at = [kind |-> "iso", age |-> 200]
    /\ trend.items[3].created_at = [kind |-> "none", age |-> 0]
    /\ CountIn(trend.recent_counter, "alpha") = 5
    /\ CountIn(trend.baseline_counter, "alpha") = 1
    /\ CountIn(trend.baseline_counter, "beta") = 4

\* C22 (as claimed): two calls of compute_trends with the same item list and
\* the same now return the same ordered list, equal scores included.
C22_Deterministic ==
    trend.pc = "again" => trend.ret2 = trend.ret

\* a call with selected_item_ids=None that returned, GROQ_API_KEY set and the
\* SDK importable
ReturnedWithCredential ==
    gen.pc = "done" /\ ~gen.selected.given /\ gen.env.api_key /\ gen.env.sdk

C24_SendEmail ==
    mail.pc # "idle" =>
       /\ ~mail.api_key =>
             mail.pc = "raised" /\ mail.requests = <<>> /\ mail.exc.type = "RuntimeError"
       /\ mail.api_key =>
             /\ mail.requests = <<[to |-> <<mail.to_email>>, subject |-> mail.subject]>>
             /\ mail.pc = "returned" => mail.status # 0 /\ mail.status < 400
             /\ (mail.pc = "raised" /\ mail.status # 0) =>
                   /\ mail.status >= 400
                   /\ mail.exc.type = "RuntimeError"
                   /\ mail.exc.status = mail.status /\ mail.exc.text = mail.text

\* a delivery request answered with status 400: the call raised with the
\* status and the response text
C24_Witness ==
    /\ mail.pc = "raised" /\ mail.api_key
    /\ Len(mail.requests) = 1
    /\ mail.status = 400
    /\ mail.exc = [type |-> "RuntimeError", status |-> 400, text |-> "Bad Request",
                   hint |-> FALSE]

\* the number of the times of a list that lie in the window ending at s
InWindow(times, s) ==
    Cardinality({i \in DOMAIN times :
                    times[i] > s - limiter.window_seconds /\ times[i] <= s})

\* the state part of C25: no window holds more than `limit` allowed requests
\* of a key, and self.requests holds allowed requests only
C25_State ==
    \A k \in RateKeys :
       /\ \A s \in 0..limiter.now : InWindow(limiter.allowed[k], s) <= limiter.limit
       /\ k \in DOMAIN limiter.requests =>
             /\ Len(limiter.requests[k]) <= limiter.limit
             /\ Range(limiter.requests[k]) \subseteq Range(limiter.allowed[k])

\* the step part of C25: a call for a key is allowed exactly when fewer than
\* `limit` allowed requests of that key lie in the window ending now; an
\* allowed call is recorded with its time, a denied one is not; the other
\* keys' lists are left alone
C25_Step ==
    (limiter'.last # limiter.last \/ limiter'.requests # limiter.requests) =>
       LET k == limiter'.last.key IN
       /\ limiter'.last.ret <=> InWindow(limiter.allowed[k], limiter.now) < limiter.limit
       /\ limiter'.allowed[k] = IF limiter'.last.ret THEN Append(limiter.allowed[k], limiter.now)
                                ELSE limiter.allowed[k]
       /\ Len(limiter'.requests[k]) = InWindow(limiter'.allowed[k], limiter.now)
       /\ \A j \in RateKeys \ {k} :
             /\ limiter'.allowed[j] = limiter.allowed[j]
             /\ j \in DOMAIN limiter.requests =>
                   j \in DOMAIN limiter'.requests /\ limiter'.requests[j] = limiter.requests[j]

\* C25: is_allowed returns true for the first `limit` calls of a key within a
\* window and false for the further ones, so no window holds more than `limit`
\* allowed requests of a key; denied calls are not recorded, keys do not
\* affect each other, and requests older than the window no longer count.
C25_RateLimiter == [](C25_State) /\ [][C25_Step]_vars

\* limit 2, window 2: k1 allowed twice at time 0, twice more at time 2 when
\* the first two no longer count, then denied; k2 allowed meanwhile
C25_Witness ==
    /\ limiter.limit = 2 /\ limiter.window_seconds = 2
    /\ limiter.allowed["k1"] = <<0, 0, 2, 2>>
    /\ limiter.last = [key |-> "k1", ret |-> FALSE]
    /\ limiter.now = 2
    /\ limiter.allowed["k2"] # <<>>

\* C29 (as claimed): a function under @rate_limit(limit, window_seconds) is
\* invoked at most `limit` times per rate key within any window.
C29_DecoratorLimits ==
    \A k \in RateKeys :
       \A s \in 0..limiter.now : InWindow(limiter.invoked[k], s) <= limiter.limit

\* ------------------------------- further properties of the orchestrator
\* the positions of an execute call between its update to "running" and its end
Running == {"loop", "send", "mark", "handler"}

\* C26 (as claimed): no execute call ends leaving its operation in "running":
\* a row whose status is "running" has an execute call that set it and has
\* not ended yet.
C26_NeverStuckRunning ==
    \A o \in OpIds :
       bulk_operations[o].status = "running" =>
          \E c \in CallIds : calls[c].op = o /\ calls[c].pc \in Running

\* the state part of C27: the keys of results, in a call and in the store, are
\* targets of the operation, and there are no more of them than targets
C27_State ==
    /\ \A c \in CallIds :
          /\ DOMAIN calls[c].results \subseteq Range(calls[c].targets)
          /\ Cardinality(DOMAIN calls[c].results) <= Len(calls[c].targets)
    /\ \A o \in OpIds :
          bulk_operations[o] # NoRow =>
             /\ DOMAIN bulk_operations[o].results
                   \subseteq Range(bulk_operations[o].target_workspaces)
             /\ Cardinality(DOMAIN bulk_operations[o].results)
                   <= Len(bulk_operations[o].target_workspaces)

\* the step part of C27: a step of the loop for target w adds or replaces the
\* entry of w only, every other entry stays as it was, and neither the stored
\* results nor another call's results change
C27_Step ==
    \A c \in CallIds :
       LET f == calls[c] g == calls'[c] w == f.targets[f.idx] IN
       (f.pc \in {"loop", "send", "mark"} /\ f.idx <= Len(f.targets) /\ g # f) =>
          /\ DOMAIN g.results \subseteq DOMAIN f.results \cup {w}
          /\ \A t \in DOMAIN f.results \ {w} :
                t \in DOMAIN g.results /\ g.results[t] = f.results[t]
          /\ \A d \in CallIds \ {c} : calls'[d] = calls[d]
          /\ bulk_operations' = bulk_operations

\* C27: processing a target writes that target's entry of results only, so
\* results never has a key outside target_workspaces nor more entries than
\* target_workspaces.
C27_OwnEntryOnly == [](C27_State) /\ [][C27_Step]_vars

\* a call over targets A, B, C that has recorded A and B and is about to
\* process C; A's entry is a success, B's a failure
C27_Witness ==
    \E c \in CallIds :
       /\ calls[c].pc = "loop" /\ calls[c].targets = <<"A", "B", "C">> /\ calls[c].idx = 3
       /\ DOMAIN calls[c].results = {"A", "B"}
       /\ calls[c].results["A"].status = "success"
       /\ calls[c].results["B"].status = "failed"

\* C28 (as claimed): the draft marked sent is the draft whose text was
\* emailed: every draft with sent = true was the subject of a successful
\* send_email.
C28_MarkedDraftWasEmailed ==
    \A i \in DOMAIN drafts :
       drafts[i].sent =>
          \E inv \in invocations :
             /\ inv.fn = "send_email"
             /\ inv.draft_id = drafts[i].id
             /\ inv.text = drafts[i].draft_text

\* ------------------------------------------------ properties of get_client
\* C30 (as claimed): create_client runs at most once in the process and all
\* the calls of get_client that return, return one and the same instance.
C30_OneClient ==
    /\ client.constructed <= 1
    /\ Cardinality(client.returns) <= 1

====
